---- MODULE Spec2Model ----
(***************************************************************************)
(* A model of goker, an MQTT v5 broker core written in Go: the primitive   *)
(* codec (internal/protocol/packet.go), the fixed header, the CONNECT and  *)
(* PUBLISH decoders and the CONNACK builder (internal/protocol/mqtt.go),   *)
(* the connection loop (internal/gateway/gateway.go) and the logger        *)
(* (internal/utils).                                                       *)
(*                                                                         *)
(* A bytes.Buffer is modelled by the sequence of its unread bytes.  A Go   *)
(* error value is modelled by its message, the nil error by NoErr.  Every  *)
(* decoder is an operator that returns a record holding the error, the     *)
(* buffer as the call leaves it and the decoded value.                     *)
(***************************************************************************)
EXTENDS Integers, Sequences, FiniteSets, TLC

\* ------------------------------------------------------------------ bounds

\* the most entries a property block offered to a property decoder holds
MaxEntries == 2

\* the most pieces the content offered to UTF8String.decode is made of
MaxChunks == 3

\* the longest byte sequence offered to the integer and binary decoders
MaxRawLen == 4

\* VBI round trips are tried on 0..MaxSmallN and on the values around every
\* length boundary (127/128, 16383/16384, 2097151/2097152, 2^28-1).
MaxSmallN == 130

\* Longest byte sequence offered to VarByteInt.decode and to ParseHeader.
MaxVbiLen == 5

\* ------------------------------------------------------------------ bytes

Byte == 0..255

Min(a, b) == IF a < b THEN a ELSE b

\* 2^k for the shifts the code uses
RECURSIVE Pow2(_)
Pow2(k) == IF k = 0 THEN 1 ELSE 2 * Pow2(k - 1)

\* bit k of b (b & (1 << k) != 0)
Bit(b, k) == (b \div Pow2(k)) % 2 = 1

\* the first n bytes of s, at most
Take(s, n) == SubSeq(s, 1, Min(n, Len(s)))

\* bytes.Buffer.Next(n): s without its first n bytes (all of them if fewer)
Drop(s, n) == SubSeq(s, Min(n, Len(s)) + 1, Len(s))

\* n zero bytes: make([]byte, n)
Zeros(n) == [i \in 1..n |-> 0]

\* the nil error
NoErr == "nil"

\* bytes.Buffer.Read(p) with len(p) = n: io.EOF only when the buffer is empty
\* and n > 0; otherwise it copies what there is and leaves the rest of p zero.
BufRead(r, n) ==
  IF Len(r) = 0 /\ n > 0
    THEN [err |-> "EOF", b |-> Zeros(n), n |-> 0, r |-> r]
    ELSE [err |-> NoErr,
          b   |-> Take(r, n) \o Zeros(n - Min(n, Len(r))),
          n   |-> Min(n, Len(r)),
          r   |-> Drop(r, n)]

\* binary.BigEndian.Uint16
Uint16(b) == b[1] * 256 + b[2]

\* bytes.Trim(b, "\x00"): drop the leading and the trailing zero bytes
RECURSIVE TrimLeft(_)
TrimLeft(b) == IF b # <<>> /\ Head(b) = 0 THEN TrimLeft(Tail(b)) ELSE b

RECURSIVE TrimRight(_)
TrimRight(b) ==
  IF b # <<>> /\ b[Len(b)] = 0 THEN TrimRight(SubSeq(b, 1, Len(b) - 1)) ELSE b

Trim(b) == TrimRight(TrimLeft(b))

\* binary.BigEndian.PutUint32 of a value below 2^31
PutUint32(x) ==
  << (x \div 16777216) % 256, (x \div 65536) % 256, (x \div 256) % 256, x % 256 >>

\* ------------------------------------------------------------------ VarByteInt

\* The loop of VarByteInt.encode: every round assigns encodedByte anew
\* (encodedByte = v % 128, with the continuation bit while v > 0), so what is
\* left after the loop is the byte of its last round.
RECURSIVE VarByteInt_encodeLoop(_)
VarByteInt_encodeLoop(v) ==
  LET encodedByte == v % 128
      v1          == v \div 128
  IN  IF v1 > 0 THEN VarByteInt_encodeLoop(v1) ELSE encodedByte

\* VarByteInt.encode: the four big-endian bytes of encodedByte, trimmed of
\* zero bytes on both sides.
VarByteInt_encode(v) == Trim(PutUint32(VarByteInt_encodeLoop(v)))

\* The loop of VarByteInt.decode.  ReadByte comes before the test, so a byte
\* that is there is consumed also when the multiplier is over the limit.
\* multiplier <= 128^4 and x < 2^28 throughout: uint32 never wraps.
RECURSIVE VarByteInt_decodeLoop(_, _, _)
VarByteInt_decodeLoop(r, multiplier, x) ==
  IF multiplier > 128 * 128 * 128 \/ r = <<>>
    THEN [err |-> "Unable to decode Variable Byte Integer", v |-> 0,
          r |-> Drop(r, 1)]
    ELSE LET encodedByte == Head(r)
             x1          == x + (encodedByte % 128) * multiplier
         IN  IF encodedByte < 128
               THEN [err |-> NoErr, v |-> x1, r |-> Tail(r)]
               ELSE VarByteInt_decodeLoop(Tail(r), multiplier * 128, x1)

\* VarByteInt.decode as it would be if the error of ReadByte were dropped: the
\* byte read at the end of the input is then 0 and ends the loop.
VarByteInt_decode_eofIgnored(r) == VarByteInt_decodeLoop(r \o <<0>>, 1, 0)

\* VarByteInt.decode on a receiver that holds 0; on an error the receiver is
\* not assigned (v stays 0).
VarByteInt_decode(r) == VarByteInt_decodeLoop(r, 1, 0)

\* ------------------------------------------------------------------ UTF-8

\* unicode/utf8: the size the lead byte announces (0: not a lead byte) and the
\* range the second byte must lie in (the tables first and acceptRanges).
Utf8Size(b0) ==
  IF b0 < 128 THEN 1
  ELSE IF b0 < 194 THEN 0
  ELSE IF b0 < 224 THEN 2
  ELSE IF b0 < 240 THEN 3
  ELSE IF b0 < 245 THEN 4
  ELSE 0

Utf8Lo(b0) == IF b0 = 224 THEN 160 ELSE IF b0 = 240 THEN 144 ELSE 128

Utf8Hi(b0) == IF b0 = 237 THEN 159 ELSE IF b0 = 244 THEN 143 ELSE 191

IsCont(b) == 128 <= b /\ b <= 191

\* whether p starts with a well-formed encoding of sz bytes
Utf8WellFormed(p, sz) ==
  /\ sz >= 1
  /\ Len(p) >= sz
  /\ sz >= 2 => (Utf8Lo(p[1]) <= p[2] /\ p[2] <= Utf8Hi(p[1]))
  /\ sz >= 3 => IsCont(p[3])
  /\ sz >= 4 => IsCont(p[4])

\* utf8.DecodeRune(p): size is the number of bytes of the rune; bad tells an
\* invalid or missing encoding (RuneError, size 0 or 1); runeError tells that
\* the rune returned is utf8.RuneError, which is also what the valid encoding
\* EF BF BD of U+FFFD decodes to.
DecodeRune(p) ==
  IF p = <<>> THEN [size |-> 0, bad |-> TRUE, runeError |-> TRUE]
  ELSE IF ~Utf8WellFormed(p, Utf8Size(p[1]))
    THEN [size |-> 1, bad |-> TRUE, runeError |-> TRUE]
  ELSE [size |-> Utf8Size(p[1]), bad |-> FALSE,
        runeError |-> (Len(p) >= 3 /\ SubSeq(p, 1, 3) = <<239, 191, 189>>)]

\* utf8.Valid(p)
RECURSIVE Utf8Valid(_)
Utf8Valid(p) ==
  IF p = <<>> THEN TRUE
  ELSE IF DecodeRune(p).bad THEN FALSE
  ELSE Utf8Valid(Drop(p, Utf8Size(p[1])))

\* The rune loop of UTF8String.decode: `continue` on utf8.RuneError leaves the
\* reader where it is, so the loop never ends (out = "hang").  consumed is
\* remain - r.Len().
RECURSIVE UTF8String_decodeLoop(_, _, _, _)
UTF8String_decodeLoop(r, consumed, slen, v) ==
  IF ~(consumed < slen) THEN [out |-> "ret", err |-> NoErr, v |-> v, r |-> r]
  ELSE IF DecodeRune(r).runeError
    THEN [out |-> "hang", err |-> NoErr, v |-> v, r |-> r]
  ELSE UTF8String_decodeLoop(Drop(r, Utf8Size(r[1])),
                             consumed + Utf8Size(r[1]), slen,
                             v \o Take(r, Utf8Size(r[1])))

\* UTF8String.decode after its first Read (rd): the length, the two tests on
\* the reader (its size, and utf8.Valid of all that is left in it), the loop
UTF8String_afterLen(rd) ==
  IF rd.err # NoErr
    THEN [out |-> "ret", err |-> "Unable to decode UTF-8 string.",
          v |-> <<>>, r |-> rd.r]
  ELSE IF Uint16(rd.b) = 0
    THEN [out |-> "ret", err |-> NoErr, v |-> <<>>, r |-> rd.r]
  ELSE IF Len(rd.r) < Uint16(rd.b)
    THEN [out |-> "ret", err |-> "UTF-8 string doesn't match set length.",
          v |-> <<>>, r |-> rd.r]
  ELSE IF ~Utf8Valid(rd.r)
    THEN [out |-> "ret", err |-> "UTF-8 string is not valid utf-8.",
          v |-> <<>>, r |-> rd.r]
  ELSE UTF8String_decodeLoop(rd.r, 0, Uint16(rd.b), <<>>)

\* UTF8String.decode.  The string is modelled by its bytes.
UTF8String_decode(r) == UTF8String_afterLen(BufRead(r, 2))

\* a decoder result that did not return normally or returned an error
Failed(x) == x.out # "ret" \/ x.err # NoErr

\* the error a caller returns for a callee's result x: the wrapping message
\* if x returned an error, none if x did not return
Wrap(x, msg) == IF x.out = "ret" THEN msg ELSE NoErr

\* UTF8StringPair.decode after the value was decoded (w)
UTF8StringPair_afterValue(k, w) ==
  [out |-> w.out,
   err |-> IF Failed(w)
             THEN Wrap(w, "Unable to decode value in UTF-8 string pair")
             ELSE NoErr,
   v |-> <<k.v, w.v>>, r |-> w.r]

\* UTF8StringPair.decode after the key was decoded (k)
UTF8StringPair_afterKey(k) ==
  IF Failed(k)
    THEN [out |-> k.out,
          err |-> Wrap(k, "Unable to decode key in UTF-8 string pair"),
          v |-> <<k.v, <<>> >>, r |-> k.r]
    ELSE UTF8StringPair_afterValue(k, UTF8String_decode(k.r))

\* UTF8StringPair.decode: key, then value; an error is wrapped.
UTF8StringPair_decode(r) == UTF8StringPair_afterKey(UTF8String_decode(r))

\* ------------------------------------------------------------------ BinaryData, integers

\* BinaryData.decode after the Read of the data (rv)
BinaryData_afterData(rv) ==
  [out |-> "ret",
   err |-> IF rv.err # NoErr THEN "Unable to decode BinaryData." ELSE NoErr,
   v |-> rv.b, r |-> rv.r]

\* BinaryData.decode after the Read of the two length bytes (rd)
BinaryData_afterLen(rd) ==
  IF rd.err # NoErr
    THEN [out |-> "ret", err |-> "Unable to decode BinaryData.",
          v |-> <<>>, r |-> rd.r]
    ELSE BinaryData_afterData(BufRead(rd.r, Uint16(rd.b)))

\* BinaryData.decode: two length bytes, then a buffer of that length filled by
\* one Read.
BinaryData_decode(r) == BinaryData_afterLen(BufRead(r, 2))

\* ByteInteger.encode
ByteInteger_encode(v) == IF v THEN <<1>> ELSE <<0>>

\* ByteInteger.decode after its Read (rd): the test b[0] >= 1 refuses every
\* byte but 0.
ByteInteger_afterRead(rd, old) ==
  IF rd.err # NoErr \/ rd.b[1] >= 1
    THEN [out |-> "ret", err |-> "Unable to decode Byte Integer.",
          v |-> old, r |-> rd.r]
    ELSE [out |-> "ret", err |-> NoErr, v |-> (rd.b[1] = 1), r |-> rd.r]

\* ByteInteger.decode on a receiver that holds old
ByteInteger_decode(r, old) == ByteInteger_afterRead(BufRead(r, 1), old)

\* TwoByteInteger.decode after its Read (rd)
TwoByteInteger_afterRead(rd, old) ==
  IF rd.err # NoErr
    THEN [out |-> "ret", err |-> "Unable to decode Two Byte Integer.",
          v |-> old, r |-> rd.r]
    ELSE [out |-> "ret", err |-> NoErr, v |-> Uint16(rd.b), r |-> rd.r]

\* TwoByteInteger.decode on a receiver that holds old
TwoByteInteger_decode(r, old) == TwoByteInteger_afterRead(BufRead(r, 2), old)

\* FourByteInteger.decode after its Read (rd).  The value is kept as its four
\* big-endian bytes: a uint32 does not fit TLC's integers.
FourByteInteger_afterRead(rd, old) ==
  IF rd.err # NoErr
    THEN [out |-> "ret", err |-> "Unable to decode Two Byte Integer.",
          v |-> old, r |-> rd.r]
    ELSE [out |-> "ret", err |-> NoErr, v |-> rd.b, r |-> rd.r]

\* FourByteInteger.decode on a receiver that holds old
FourByteInteger_decode(r, old) == FourByteInteger_afterRead(BufRead(r, 4), old)

\* ------------------------------------------------------------------ fixed header

\* the control packet types (CType, iota from RESERVED)
RESERVED == 0
CONNECT == 1
CONNACK == 2
PUBLISH == 3
COUNT == 16

\* FixedHeaderLen = len(FixedHeader{})
FixedHeaderLen == 2

\* CType.encode: byte(t << 4)
CType_encode(t) == << (t * 16) % 256 >>

\* the type CType.decode takes from the first byte: its high nibble
CTypeOf(b) == (b \div 16) % 16

\* CType.decode: the byte is put back only when the type is accepted.
CType_decode(r) ==
  IF r = <<>>
    THEN [err |-> "Missing packet type in header.", v |-> 0, r |-> r]
  ELSE IF CTypeOf(Head(r)) <= RESERVED \/ CTypeOf(Head(r)) >= COUNT
    THEN [err |-> "Unknowned MQTT Control Packet type!",
          v |-> CTypeOf(Head(r)), r |-> Tail(r)]
  ELSE [err |-> NoErr, v |-> CTypeOf(Head(r)), r |-> r]

\* Flag.encode: bit 3 from dup, bits 2-1 from qos (byte(qos) << 1 & 0b0110),
\* and bit 0 from dup again (the second `if f.dup`).
Flag_encode(f) ==
  << (IF f.dup THEN 8 ELSE 0) + ((f.qos * 2) % 8) + (IF f.dup THEN 1 ELSE 0) >>

\* Flag.decode: dup = bit 3, qos = (b & 0b0110) >> 1, retain = bit 0; the
\* byte is put back.
Flag_decode(r) ==
  IF r = <<>>
    THEN [err |-> "Missing flag in header.",
          v |-> [dup |-> FALSE, qos |-> 0, retain |-> FALSE], r |-> r]
    ELSE [err |-> NoErr,
          v |-> [dup |-> Bit(Head(r), 3), qos |-> (Head(r) \div 2) % 4,
                 retain |-> Bit(Head(r), 0)],
          r |-> r]

\* the bitwise or of a byte whose low nibble is 0 and a byte below 16
OrNibbles(hi, lo) == hi + lo

\* MqttHeader.encode: ctl | flag, then the encoded length
MqttHeader_encode(h) ==
  << OrNibbles(CType_encode(h.ctl)[1], Flag_encode(h.flag)[1]) >>
     \o VarByteInt_encode(h.len)

\* &MqttHeader{}
ZeroHeader == [ctl |-> 0, flag |-> [dup |-> FALSE, qos |-> 0, retain |-> FALSE],
               len |-> 0]

\* ParseHeader after h.len.decode (l).  hnil tells that the RequestHeader
\* returned is nil.  When the length does not decode, what is returned is the
\* variable err, which still holds the nil result of h.flag.decode (f.err).
ParseHeader_afterLen(c, f, l) ==
  IF l.err # NoErr
    THEN [hnil |-> TRUE, err |-> f.err, h |-> ZeroHeader, r |-> l.r]
    ELSE [hnil |-> FALSE, err |-> NoErr,
          h |-> [ctl |-> c.v, flag |-> f.v, len |-> l.v], r |-> l.r]

\* ParseHeader after h.flag.decode (f): r.Next(1), then h.len.decode
ParseHeader_afterFlag(c, f) ==
  IF f.err # NoErr
    THEN [hnil |-> TRUE, err |-> "Malformed Fixed Header", h |-> ZeroHeader,
          r |-> f.r]
    ELSE ParseHeader_afterLen(c, f, VarByteInt_decode(Drop(f.r, 1)))

\* ParseHeader after h.ctl.decode (c)
ParseHeader_afterCtl(c) ==
  IF c.err # NoErr
    THEN [hnil |-> TRUE, err |-> "Malformed Fixed Header", h |-> ZeroHeader,
          r |-> c.r]
    ELSE ParseHeader_afterFlag(c, Flag_decode(c.r))

\* ParseHeader
ParseHeader(r) == ParseHeader_afterCtl(CType_decode(r))

\* MqttHeader.BodyLength
BodyLength(h) == h.len

\* ------------------------------------------------------------------ connect flags

\* QoS (iota from QoS0)
QoS0 == 0
QoS1 == 1
QoS3 == 3

\* QoS.maxQos
maxQos(qos) == QoS0

\* QoS.isSupported
isSupported(qos) == qos <= maxQos(qos)

\* b & m for a byte b and a mask m of adjacent bits lo..hi
MaskBits(b, lo, hi) == (b % Pow2(hi + 1)) - (b % Pow2(lo))

\* ConnectFlag accessors, with the masks of the source
ConnectFlag_username(f) == MaskBits(f, 7, 7) # 0

ConnectFlag_password(f) == MaskBits(f, 5, 5) # 0

ConnectFlag_retain(f) == MaskBits(f, 4, 4) # 0

\* ConnectFlag.qos: QoS(byte(f) & 0b00011000), not shifted
ConnectFlag_qos(f) == MaskBits(f, 3, 4)

ConnectFlag_will(f) == MaskBits(f, 2, 2) # 0

ConnectFlag_cleanstart(f) == MaskBits(f, 1, 1) # 0

ConnectFlag_reservered(f) == MaskBits(f, 0, 0) # 0

\* ConnectFlag.valid, had it compared the will-qos as a number 0..3 (the
\* two bits shifted down) with QoS3
ConnectFlag_valid_qosShifted(f) ==
  IF ConnectFlag_reservered(f) THEN "Reserved flag must be 0."
  ELSE IF ConnectFlag_qos(f) \div 8 >= QoS3 THEN "Invalid QoS"
  ELSE IF ConnectFlag_will(f) /\ ConnectFlag_qos(f) # QoS0
    THEN "Invalid QoS while will flag is set."
  ELSE NoErr

\* ConnectFlag.valid: the error, NoErr when the flags are accepted
ConnectFlag_valid(f) ==
  IF ConnectFlag_reservered(f) THEN "Reserved flag must be 0."
  ELSE IF ConnectFlag_qos(f) >= QoS3 THEN "Invalid QoS"
  ELSE IF ConnectFlag_will(f) /\ ConnectFlag_qos(f) # QoS0
    THEN "Invalid QoS while will flag is set."
  ELSE NoErr

\* ------------------------------------------------------------------ properties

\* MqttProperty identifiers
SessionExpiryInterval == 17
ReceiveMaximum == 33
MaximumPacketSize == 39
TopicAliasMaximum == 34
RequestResponseInformation == 25
RequestProblemInformation == 23
UserProperty == 38
AuthenticationMethod == 21
AuthenticationData == 22
WillDelayInterval == 24
PayloadFormatIndicator == 1
MessageExpiryInterval == 2
ContentType == 3
ResponseTopic == 8
CorrelationData == 9
MaximumQoS == 36
RetainAvailable == 37
WildcardSubscriptionAvailable == 40
SubscriptionIdentifiersAvailable == 41
SharedSubscriptionAvailable == 42
TopicAlias == 35
SubscriptionIdentifier == 11

\* MqttProperty.encode
MqttProperty_encode(p) == <<p>>

\* One arm of a property switch after the value was decoded (d): the wrapped
\* error if the decoder failed, else the value stored in the slot `field` of
\* the properties p.
StoreProperty(d, msg, p, field) ==
  IF Failed(d) THEN [out |-> d.out, err |-> Wrap(d, msg), p |-> p, r |-> d.r]
  ELSE [out |-> "ret", err |-> NoErr, r |-> d.r, p |-> [p EXCEPT ![field] = d.v]]

\* ConnectProperties after the defaults decode assigns first
ConnectProperties_defaults ==
  [fields                |-> {},
   sessionExpiryInterval |-> <<0, 0, 0, 0>>,
   receiveMaximum        |-> 65535,
   maximumPacketSize     |-> <<255, 255, 255, 255>>,
   topicAliasMaximum     |-> 0,
   requestResponseInfo   |-> FALSE,
   requestProblemInfo    |-> TRUE,
   userProperty          |-> << <<>>, <<>> >>,
   authenticationMethod  |-> <<>>,
   authenticationData    |-> <<>>]

\* The switch of ConnectProperties.decode on the identifier mProp, the reader
\* standing after it.  RequestResponseInformation decodes into
\* requestProblemInfo, as RequestProblemInformation does.
ConnectProperties_case(mProp, r, p) ==
  CASE mProp = SessionExpiryInterval ->
         StoreProperty(FourByteInteger_decode(r, <<0, 0, 0, 0>>),
                       "Invalid Session Expiry Interval", p,
                       "sessionExpiryInterval")
    [] mProp = ReceiveMaximum ->
         StoreProperty(TwoByteInteger_decode(r, p.receiveMaximum),
                       "Invalid Receive Maximum", p, "receiveMaximum")
    [] mProp = MaximumPacketSize ->
         StoreProperty(FourByteInteger_decode(r, p.maximumPacketSize),
                       "Invalid Maximum Packet Size", p, "maximumPacketSize")
    [] mProp = TopicAliasMaximum ->
         StoreProperty(TwoByteInteger_decode(r, p.topicAliasMaximum),
                       "Invalid Topic Alias Maximum", p, "topicAliasMaximum")
    [] mProp = RequestResponseInformation ->
         StoreProperty(ByteInteger_decode(r, p.requestProblemInfo),
                       "Invalid Request Response Information", p,
                       "requestProblemInfo")
    [] mProp = RequestProblemInformation ->
         StoreProperty(ByteInteger_decode(r, p.requestProblemInfo),
                       "Invalid Request Problem Information", p,
                       "requestProblemInfo")
    [] mProp = UserProperty ->
         StoreProperty(UTF8StringPair_decode(r), "Invalid User Property", p,
                       "userProperty")
    [] mProp = AuthenticationMethod ->
         StoreProperty(UTF8String_decode(r), "Invalid Authentication Method", p,
                       "authenticationMethod")
    [] mProp = AuthenticationData ->
         StoreProperty(BinaryData_decode(r), "Invalid Authentication Data", p,
                       "authenticationData")
    [] OTHER ->
         [out |-> "ret", err |-> "Unknown connect packet property", p |-> p,
          r |-> r]

\* The loop of ConnectProperties.decode: while remain - r.Len() < propLen,
\* read an identifier, refuse it if it is in p.fields, record it, decode.
RECURSIVE ConnectProperties_loop(_, _, _, _)

\* the loop after one property was decoded (c)
ConnectProperties_next(c, remain, propLen) ==
  IF Failed(c) THEN c ELSE ConnectProperties_loop(c.r, remain, propLen, c.p)

ConnectProperties_loop(r, remain, propLen, p) ==
  IF ~(remain - Len(r) < propLen)
    THEN [out |-> "ret", err |-> NoErr, p |-> p, r |-> r]
  ELSE IF r = <<>> THEN [out |-> "ret", err |-> "EOF", p |-> p, r |-> r]
  ELSE IF Head(r) \in p.fields
    THEN [out |-> "ret", err |-> "Duplicate connect property", p |-> p,
          r |-> Tail(r)]
  ELSE ConnectProperties_next(
         ConnectProperties_case(Head(r), Tail(r),
                                [p EXCEPT !.fields = @ \cup {Head(r)}]),
         remain, propLen)

\* ConnectProperties.decode after propLen.decode (l)
ConnectProperties_afterLen(l, p) ==
  IF l.err # NoErr THEN [out |-> "ret", err |-> l.err, p |-> p, r |-> l.r]
  ELSE IF Len(l.r) < l.v
    THEN [out |-> "ret", err |-> "Invalid Conenct Property Length.", p |-> p,
          r |-> l.r]
  ELSE IF l.v = 0 THEN [out |-> "ret", err |-> NoErr, p |-> p, r |-> l.r]
  ELSE ConnectProperties_loop(l.r, Len(l.r), l.v, p)

\* ConnectProperties.decode
ConnectProperties_decode(r) ==
  ConnectProperties_afterLen(VarByteInt_decode(r), ConnectProperties_defaults)

\* WillProperties of a fresh ConnectPayload after the two assignments decode
\* starts with
WillProperties_defaults ==
  [delayInterval          |-> <<0, 0, 0, 0>>,
   payloadFormatIndicator |-> FALSE,
   messageExpiryInterval  |-> <<0, 0, 0, 0>>,
   contentType            |-> <<>>,
   responseTopic          |-> <<>>,
   correlationData        |-> <<>>,
   userProperty           |-> << <<>>, <<>> >>]

\* The switch of WillProperties.decode
WillProperties_case(mProp, r, p) ==
  CASE mProp = WillDelayInterval ->
         StoreProperty(FourByteInteger_decode(r, <<0, 0, 0, 0>>),
                       "Invalid Will Delay Interval", p, "delayInterval")
    [] mProp = PayloadFormatIndicator ->
         StoreProperty(ByteInteger_decode(r, p.payloadFormatIndicator),
                       "Invalid Payload Format Indicator", p,
                       "payloadFormatIndicator")
    [] mProp = MessageExpiryInterval ->
         StoreProperty(FourByteInteger_decode(r, <<0, 0, 0, 0>>),
                       "Invalid Will Message Expiration Interval", p,
                       "messageExpiryInterval")
    [] mProp = ContentType ->
         StoreProperty(UTF8String_decode(r), "Invalid Will Content Type", p,
                       "contentType")
    [] mProp = ResponseTopic ->
         StoreProperty(UTF8String_decode(r), "Invalid Response Topic", p,
                       "responseTopic")
    [] mProp = CorrelationData ->
         StoreProperty(BinaryData_decode(r), "Invalid Correlation Data", p,
                       "correlationData")
    [] mProp = UserProperty ->
         StoreProperty(UTF8StringPair_decode(r), "Invalid User Property", p,
                       "userProperty")
    [] OTHER ->
         [out |-> "ret", err |-> "Unknown connect will property", p |-> p,
          r |-> r]

\* The loop of WillProperties.decode: it keeps no record of the identifiers
\* it has seen.
RECURSIVE WillProperties_loop(_, _, _, _)

\* the loop after one property was decoded (c)
WillProperties_next(c, remain, propLen) ==
  IF Failed(c) THEN c ELSE WillProperties_loop(c.r, remain, propLen, c.p)

WillProperties_loop(r, remain, propLen, p) ==
  IF ~(remain - Len(r) < propLen)
    THEN [out |-> "ret", err |-> NoErr, p |-> p, r |-> r]
  ELSE IF r = <<>> THEN [out |-> "ret", err |-> "EOF", p |-> p, r |-> r]
  ELSE WillProperties_next(WillProperties_case(Head(r), Tail(r), p),
                           remain, propLen)

\* WillProperties.decode after propLen.decode (l)
WillProperties_afterLen(l, p) ==
  IF l.err # NoErr
    THEN [out |-> "ret", err |-> "Unable to decode will property length.",
          p |-> p, r |-> l.r]
  ELSE IF Len(l.r) < l.v
    THEN [out |-> "ret", err |-> "Invalid Will Properties Length.", p |-> p,
          r |-> l.r]
  ELSE IF l.v = 0 THEN [out |-> "ret", err |-> NoErr, p |-> p, r |-> l.r]
  ELSE WillProperties_loop(l.r, Len(l.r), l.v, p)

\* WillProperties.decode
WillProperties_decode(r) ==
  WillProperties_afterLen(VarByteInt_decode(r), WillProperties_defaults)

\* ------------------------------------------------------------------ CONNECT

\* var pl ConnectPayload
ZeroPayload ==
  [clientIdentifier |-> <<>>, willProperties |-> WillProperties_defaults,
   willTopic |-> <<>>, willPayload |-> <<>>, username |-> <<>>,
   password |-> <<>>]

\* a decoder that is not called: nothing is read, the slot keeps old
Skipped(r, old) == [out |-> "ret", err |-> NoErr, v |-> old, r |-> r]

\* One field of ConnectPayload.decode after it was decoded (d): the error as
\* it is if the decoder failed, else the value stored in the slot `field`.
StoreField(d, pl, field) ==
  IF Failed(d) THEN [out |-> d.out, err |-> d.err, pl |-> pl, r |-> d.r]
  ELSE [out |-> "ret", err |-> NoErr, r |-> d.r, pl |-> [pl EXCEPT ![field] = d.v]]

\* the will properties stored in the payload
StoreWillProperties(d, pl) ==
  IF Failed(d) THEN [out |-> d.out, err |-> d.err, pl |-> pl, r |-> d.r]
  ELSE [out |-> "ret", err |-> NoErr, r |-> d.r,
        pl |-> [pl EXCEPT !.willProperties = d.p]]

\* ConnectPayload.decode from `if f.password()` on
ConnectPayload_password(f, s) ==
  IF Failed(s) THEN s
  ELSE StoreField(IF ConnectFlag_password(f) THEN BinaryData_decode(s.r)
                  ELSE Skipped(s.r, s.pl.password),
                  s.pl, "password")

\* ConnectPayload.decode from `if f.username()` on
ConnectPayload_username(f, s) ==
  IF Failed(s) THEN s
  ELSE ConnectPayload_password(f,
         StoreField(IF ConnectFlag_username(f) THEN UTF8String_decode(s.r)
                    ELSE Skipped(s.r, s.pl.username),
                    s.pl, "username"))

\* the will payload of `if f.will()`
ConnectPayload_willPayload(s) ==
  IF Failed(s) THEN s ELSE StoreField(BinaryData_decode(s.r), s.pl, "willPayload")

\* the will topic of `if f.will()`
ConnectPayload_willTopic(s) ==
  IF Failed(s) THEN s
  ELSE ConnectPayload_willPayload(
         StoreField(UTF8String_decode(s.r), s.pl, "willTopic"))

\* ConnectPayload.decode from `if f.will()` on: will properties, will topic,
\* will payload
ConnectPayload_will(f, s) ==
  IF Failed(s) THEN s
  ELSE IF ConnectFlag_will(f)
    THEN ConnectPayload_username(f,
           ConnectPayload_willTopic(
             StoreWillProperties(WillProperties_decode(s.r), s.pl)))
  ELSE ConnectPayload_username(f, s)

\* ConnectPayload.decode: the client identifier, then what the flags select
ConnectPayload_decode(f, r) ==
  ConnectPayload_will(f,
    StoreField(UTF8String_decode(r), ZeroPayload, "clientIdentifier"))

\* a ConnectRequest that was not built
ZeroConnect ==
  [flag |-> 0, keepAlive |-> 0, prop |-> ConnectProperties_defaults,
   payload |-> ZeroPayload]

\* the result of ParseConnect when it returns nil and an error, or does not
\* return
ConnectFail(out, err, r) ==
  [out |-> out, err |-> err, reqnil |-> TRUE, req |-> ZeroConnect, r |-> r]

\* ParseConnect after the payload was decoded (pl).  What is left in the
\* reader after the payload is not looked at.
ParseConnect_afterPayload(flag, ka, prop, pl) ==
  IF Failed(pl) THEN ConnectFail(pl.out, pl.err, pl.r)
  ELSE [out |-> "ret", err |-> NoErr, reqnil |-> FALSE, r |-> pl.r,
        req |-> [flag |-> flag, keepAlive |-> Uint16(ka.b), prop |-> prop.p,
                 payload |-> pl.pl]]

\* ParseConnect after the properties were decoded (prop)
ParseConnect_afterProp(flag, ka, prop) ==
  IF Failed(prop) THEN ConnectFail(prop.out, prop.err, prop.r)
  ELSE ParseConnect_afterPayload(flag, ka, prop,
                                 ConnectPayload_decode(flag, prop.r))

\* ParseConnect after the Read of the keep alive (ka)
ParseConnect_afterKeepAlive(flag, ka) ==
  IF ka.err # NoErr THEN ConnectFail("ret", "Missing keep alive value.", ka.r)
  ELSE ParseConnect_afterProp(flag, ka, ConnectProperties_decode(ka.r))

\* ParseConnect after the Read of the flags (fl)
ParseConnect_afterFlag(fl) ==
  IF fl.err # NoErr THEN ConnectFail("ret", "Missing flag value.", fl.r)
  ELSE IF ConnectFlag_valid(fl.b[1]) # NoErr
    THEN ConnectFail("ret", ConnectFlag_valid(fl.b[1]), fl.r)
  ELSE ParseConnect_afterKeepAlive(fl.b[1], BufRead(fl.r, 2))

\* ParseConnect after the Read of the version (ver)
ParseConnect_afterVersion(ver) ==
  IF ver.err # NoErr \/ ver.b # <<5>>
    THEN ConnectFail("ret", "Unsupported protocol!", ver.r)
    ELSE ParseConnect_afterFlag(BufRead(ver.r, 1))

\* ParseConnect after the Read of the protocol name (name)
ParseConnect_afterName(name) ==
  IF name.err # NoErr \/ name.b # <<0, 4, 77, 81, 84, 84>>
    THEN ConnectFail("ret", "Unsupported protocol!", name.r)
    ELSE ParseConnect_afterVersion(BufRead(name.r, 1))

\* ParseConnect: protocol name, version, flags, keep alive, properties,
\* payload.
ParseConnect(h, r) == ParseConnect_afterName(BufRead(r, 6))

\* ------------------------------------------------------------------ CONNACK

\* ReasonCode
Success == 0
RetainNotSupported == 154
QoSNotSupported == 155

\* ReasonCode.encode
ReasonCode_encode(rc) == <<rc>>

\* the tail of ConnackProperties.encode without the shared-subscription entry
ConnackProperties_tail_short ==
  MqttProperty_encode(WildcardSubscriptionAvailable) \o ByteInteger_encode(FALSE)
  \o MqttProperty_encode(SubscriptionIdentifiersAvailable)
  \o ByteInteger_encode(FALSE)

\* the three `if true` blocks that end ConnackProperties.encode
ConnackProperties_tail ==
  MqttProperty_encode(WildcardSubscriptionAvailable) \o ByteInteger_encode(FALSE)
  \o MqttProperty_encode(SubscriptionIdentifiersAvailable)
  \o ByteInteger_encode(FALSE)
  \o MqttProperty_encode(SharedSubscriptionAvailable) \o ByteInteger_encode(FALSE)

\* ConnackProperties.encode: returns early with QoSNotSupported, or after the
\* retain entry with RetainNotSupported
ConnackProperties_encode(flag, prop) ==
  IF ~isSupported(ConnectFlag_qos(flag))
    THEN [w  |-> MqttProperty_encode(MaximumQoS)
                 \o ByteInteger_encode(maxQos(ConnectFlag_qos(flag)) >= QoS1),
          rc |-> QoSNotSupported]
  ELSE IF ConnectFlag_retain(flag)
    THEN [w  |-> MqttProperty_encode(RetainAvailable) \o ByteInteger_encode(FALSE),
          rc |-> RetainNotSupported]
  ELSE [w  |-> MqttProperty_encode(RetainAvailable) \o ByteInteger_encode(FALSE)
               \o ConnackProperties_tail,
        rc |-> Success]

\* the condition under which Response sets the session-present bit:
\* !r.flag.cleanstart() == false, which Go reads as (!cleanstart) == false
SessionPresent(flag) == (~ConnectFlag_cleanstart(flag)) = FALSE

\* ConnectRequest.Response after prop.encode (e): the body is built in full
\* also when the reason code is not Success, and then returned with an error.
ConnectRequest_Response_body(flag, e) ==
  [w   |-> (IF SessionPresent(flag) THEN <<1>> ELSE <<0>>)
           \o ReasonCode_encode(e.rc) \o VarByteInt_encode(Len(e.w)) \o e.w,
   err |-> IF e.rc # Success THEN "Unsupported Connect Propeties" ELSE NoErr]

\* ConnectRequest.Response
ConnectRequest_Response(req) ==
  ConnectRequest_Response_body(req.flag,
                               ConnackProperties_encode(req.flag, req.prop))

\* the header ResponseTo builds for a body
ConnackHeader(body) ==
  [ctl |-> CONNACK, flag |-> ZeroHeader.flag, len |-> Len(body.w)]

\* ConnectRequest.ResponseTo after r.Response() (body), to a writer whose
\* k-th WriteTo fails for k = failAt (0: none fails).  written is what
\* reached the writer.
ConnectRequest_ResponseTo_write(body, failAt) ==
  IF body.err # NoErr THEN [n |-> 0, err |-> body.err, written |-> <<>>]
  ELSE IF failAt = 1 THEN [n |-> 0, err |-> "write", written |-> <<>>]
  ELSE IF failAt = 2
    THEN [n |-> 0, err |-> "write",
          written |-> MqttHeader_encode(ConnackHeader(body))]
  ELSE [n       |-> Len(MqttHeader_encode(ConnackHeader(body))) + Len(body.w),
        err     |-> NoErr,
        written |-> MqttHeader_encode(ConnackHeader(body)) \o body.w]

\* ConnectRequest.ResponseTo
ConnectRequest_ResponseTo(req, failAt) ==
  ConnectRequest_ResponseTo_write(ConnectRequest_Response(req), failAt)

\* ------------------------------------------------------------------ PUBLISH

\* PublishProperties of a fresh PublishRequest after the assignments decode
\* starts with
PublishProperties_defaults ==
  [fields                 |-> {},
   payloadFormatIndicator |-> FALSE,
   messageExpiryInterval  |-> <<0, 0, 0, 0>>,
   topicAlias             |-> 0,
   responseTopic          |-> <<>>,
   correlationData        |-> <<>>,
   userProperty           |-> << <<>>, <<>> >>,
   subscriptionIdentifier |-> 0,
   contentType            |-> <<>>]

\* The SubscriptionIdentifier arm after the identifier was decoded (d).  The
\* message is built from err.Error() also when err is nil and the identifier
\* is 0: a call on a nil error, which panics.
PublishProperties_subscriptionId(d, p) ==
  IF d.err # NoErr
    THEN [out |-> "ret", err |-> "Invalid Subscription Identifier", p |-> p,
          r |-> d.r]
  ELSE [out |-> IF d.v = 0 THEN "panic" ELSE "ret", err |-> NoErr, r |-> d.r,
        p |-> [p EXCEPT !.subscriptionIdentifier = d.v]]

\* The switch of PublishProperties.decode
PublishProperties_case(mProp, r, p) ==
  CASE mProp = PayloadFormatIndicator ->
         StoreProperty(ByteInteger_decode(r, p.payloadFormatIndicator),
                       "Invalid Payload Format Indicator", p,
                       "payloadFormatIndicator")
    [] mProp = MessageExpiryInterval ->
         StoreProperty(FourByteInteger_decode(r, <<0, 0, 0, 0>>),
                       "Invalid Will Message Expiration Interval", p,
                       "messageExpiryInterval")
    [] mProp = TopicAlias ->
         StoreProperty(TwoByteInteger_decode(r, p.topicAlias),
                       "Invalid Topic Alias", p, "topicAlias")
    [] mProp = ResponseTopic ->
         StoreProperty(UTF8String_decode(r), "Invalid Response Topic", p,
                       "responseTopic")
    [] mProp = CorrelationData ->
         StoreProperty(BinaryData_decode(r), "Invalid Correlation Data", p,
                       "correlationData")
    [] mProp = UserProperty ->
         StoreProperty(UTF8StringPair_decode(r), "Invalid User Property", p,
                       "userProperty")
    [] mProp = SubscriptionIdentifier ->
         PublishProperties_subscriptionId(VarByteInt_decode(r), p)
    [] mProp = ContentType ->
         StoreProperty(UTF8String_decode(r), "Invalid Will Content Type", p,
                       "contentType")
    [] OTHER ->
         [out |-> "ret", err |-> "Unknown publish property", p |-> p, r |-> r]

\* The loop of PublishProperties.decode
RECURSIVE PublishProperties_loop(_, _, _, _)

\* the loop after one property was decoded (c)
PublishProperties_next(c, remain, propLen) ==
  IF Failed(c) THEN c ELSE PublishProperties_loop(c.r, remain, propLen, c.p)

PublishProperties_loop(r, remain, propLen, p) ==
  IF ~(remain - Len(r) < propLen)
    THEN [out |-> "ret", err |-> NoErr, p |-> p, r |-> r]
  ELSE IF r = <<>> THEN [out |-> "ret", err |-> "EOF", p |-> p, r |-> r]
  ELSE IF Head(r) \in p.fields
    THEN [out |-> "ret", err |-> "Duplicate connect property", p |-> p,
          r |-> Tail(r)]
  ELSE PublishProperties_next(
         PublishProperties_case(Head(r), Tail(r),
                                [p EXCEPT !.fields = @ \cup {Head(r)}]),
         remain, propLen)

\* PublishProperties.decode after propLen.decode (l)
PublishProperties_afterLen(l, p) ==
  IF l.err # NoErr
    THEN [out |-> "ret", err |-> "Unable to decode publish property length.",
          p |-> p, r |-> l.r]
  ELSE IF Len(l.r) < l.v
    THEN [out |-> "ret", err |-> "Publish property must match set length.",
          p |-> p, r |-> l.r]
  ELSE IF l.v = 0 THEN [out |-> "ret", err |-> NoErr, p |-> p, r |-> l.r]
  ELSE PublishProperties_loop(l.r, Len(l.r), l.v, p)

\* PublishProperties.decode
PublishProperties_decode(r) ==
  PublishProperties_afterLen(VarByteInt_decode(r), PublishProperties_defaults)

\* a PublishRequest that was not built
ZeroPublish ==
  [topic |-> <<>>, packetId |-> 0, prop |-> PublishProperties_defaults,
   pl |-> <<>>]

\* the result of ParsePublish when it returns nil and an error, or does not
\* return
PublishFail(out, err, r) ==
  [out |-> out, err |-> err, reqnil |-> TRUE, req |-> ZeroPublish, r |-> r]

\* ParsePublish after the properties were decoded (pr): the rest of the
\* reader is the payload
ParsePublish_afterProp(t, id, pr) ==
  IF Failed(pr) THEN PublishFail(pr.out, pr.err, pr.r)
  ELSE [out |-> "ret", err |-> NoErr, reqnil |-> FALSE, r |-> <<>>,
        req |-> [topic |-> t.v, packetId |-> id.v, prop |-> pr.p, pl |-> pr.r]]

\* ParsePublish after the packet identifier (id)
ParsePublish_afterId(t, id) ==
  IF Failed(id) THEN PublishFail(id.out, id.err, id.r)
  ELSE ParsePublish_afterProp(t, id, PublishProperties_decode(id.r))

\* ParsePublish after the topic was decoded (t)
ParsePublish_afterTopic(h, t) ==
  IF Failed(t)
    THEN PublishFail(t.out, Wrap(t, "Unable to parse public topic name"), t.r)
  ELSE ParsePublish_afterId(t, IF h.flag.qos > QoS0
                                 THEN TwoByteInteger_decode(t.r, 0)
                                 ELSE Skipped(t.r, 0))

\* ParsePublish: topic, packet identifier if the header's qos > QoS0,
\* properties, and the rest of the reader as the payload.
ParsePublish(h, r) == ParsePublish_afterTopic(h, UTF8String_decode(r))

\* PublishRequest.ResponseTo: writes nothing
PublishRequest_ResponseTo(req) == [n |-> 0, err |-> NoErr, written |-> <<>>]

\* ------------------------------------------------------------------ ParseBody

\* no Request: what ParseBody returns with an error, or does not return
NoRequest(out, err, r) ==
  [out |-> out, err |-> err, r |-> r, kind |-> "nil", connect |-> ZeroConnect,
   publish |-> ZeroPublish]

\* the Request ParseConnect returned (c): a ConnectRequest or nil
ParseBody_connect(c) ==
  [out |-> c.out, err |-> c.err, r |-> c.r,
   kind |-> IF c.reqnil THEN "nil" ELSE "connect",
   connect |-> c.req, publish |-> ZeroPublish]

\* the Request ParsePublish returned (q): a PublishRequest or nil
ParseBody_publish(q) ==
  [out |-> q.out, err |-> q.err, r |-> q.r,
   kind |-> IF q.reqnil THEN "nil" ELSE "publish",
   connect |-> ZeroConnect, publish |-> q.req]

\* MqttHeader.ParseBody: the Request is a ConnectRequest (kind "connect"), a
\* PublishRequest (kind "publish") or nil (kind "nil").
ParseBody(h, r) ==
  IF h.ctl = CONNECT THEN ParseBody_connect(ParseConnect(h, r))
  ELSE IF h.ctl = PUBLISH THEN ParseBody_publish(ParsePublish(h, r))
  ELSE NoRequest("ret", "Unsupported MQTT packet control", r)

\* Request.ResponseTo, dispatched on the request's type
ResponseTo(b, failAt) ==
  IF b.kind = "connect" THEN ConnectRequest_ResponseTo(b.connect, failAt)
  ELSE PublishRequest_ResponseTo(b.publish)

\* ------------------------------------------------------------------ inputs

\* a length-prefixed field (UTF-8 string or binary data) as a client writes it
Field(s) == << Len(s) \div 256, Len(s) % 256 >> \o s

\* the values VarByteInt.encode is tried on
VBIValues == (0..MaxSmallN) \cup {16383, 16384, 2097151, 2097152, 268435455}

\* the bytes the sequences offered to VarByteInt.decode are made of: with and
\* without the continuation bit, smallest and largest payload
VBIBytes == {0, 1, 127, 128, 255}

\* the inputs of ParseHeader: nothing, or a control byte (type 0, CONNECT,
\* PUBLISH with flags, AUTH) and what follows it
CtlBytes == {0, 16, 59, 240}

\* the headers MqttHeader.encode is tried on: every type 1..15, every flag
\* nibble (dup, qos, retain), lengths on both sides of the VBI boundaries
HeaderLens == {0, 1, 11, 127, 128, 16383, 16384, 2097151, 2097152, 268435455}

Headers ==
  [ctl : 1..15, flag : [dup : BOOLEAN, qos : 0..3, retain : BOOLEAN],
   len : HeaderLens]

\* the flag nibble a Flag stands for: dup bit 3, qos bits 2-1, retain bit 0
FlagNibble(f) ==
  (IF f.dup THEN 8 ELSE 0) + 2 * f.qos + (IF f.retain THEN 1 ELSE 0)

ConnectFlags == 0..255

\* The entries the property blocks are made of, each an identifier and a
\* well-formed value: session expiry interval 5, receive maximum 10 and 0,
\* maximum packet size 9 and 0, request response information and request
\* problem information 0, the user property ("a", "b"), will delay interval
\* 5, payload format indicator 0, topic alias 7, subscription identifier 5
\* and 0.
PropEntries ==
  { << SessionExpiryInterval, 0, 0, 0, 5 >>,
    << ReceiveMaximum, 0, 10 >>,
    << ReceiveMaximum, 0, 0 >>,
    << MaximumPacketSize, 0, 0, 0, 9 >>,
    << MaximumPacketSize, 0, 0, 0, 0 >>,
    << RequestResponseInformation, 0 >>,
    << RequestProblemInformation, 0 >>,
    << UserProperty >> \o Field(<<97>>) \o Field(<<98>>),
    << WillDelayInterval, 0, 0, 0, 5 >>,
    << PayloadFormatIndicator, 0 >>,
    << TopicAlias, 0, 7 >>,
    << SubscriptionIdentifier, 5 >>,
    << SubscriptionIdentifier, 0 >> }

\* the blocks' entries, in the order they are written
EntrySeqs == UNION { [1..k -> PropEntries] : k \in 0..MaxEntries }

\* the bytes of the entries es, one after the other
RECURSIVE Flatten(_)
Flatten(es) == IF es = <<>> THEN <<>> ELSE Head(es) \o Flatten(Tail(es))

\* what follows a property block in its packet: nothing, or two more bytes
Trailers == { <<>>, <<0, 0>> }

\* a property block that declares length L (below 128: one length byte) for
\* the entries es, followed by t
PropBlock(L, es, t) == <<L>> \o Flatten(es) \o t

\* the lengths declared for the entries es followed by t: from 0 to one more
\* than there are bytes
DeclaredLens(es, t) == 0..(Len(Flatten(es)) + Len(t) + 1)

\* the property decoders
PropKinds == {"connectprops", "willprops", "publishprops"}

\* the bytes ByteInteger.decode is tried on
BoolBytes == {0, 1, 2, 127, 128, 255}

\* The pieces the content after a string's length is made of: "a", U+00E9
\* (C3 A9), U+FFFD (EF BF BD), a lead byte without its continuation, a byte
\* that occurs in no UTF-8 encoding.
Utf8Chunks ==
  { <<97>>, <<195, 169>>, <<239, 191, 189>>, <<195>>, <<255>> }

ChunkSeqs == UNION { [1..k -> Utf8Chunks] : k \in 0..MaxChunks }

\* the lengths declared for the content cs: from 0 to one more than there
\* are bytes
StringLens(cs) == 0..(Len(Flatten(cs)) + 1)

\* a string field that declares length L (below 256) before the content cs
StringInput(L, cs) == <<0, L>> \o Flatten(cs)

\* the bytes the sequences offered to the integer and binary decoders are
\* made of
RawBytes == {0, 1, 3}

RawInputs == UNION { [1..k -> RawBytes] : k \in 0..MaxRawLen }

\* the integer and binary decoders
RawKinds == {"twobyte", "fourbyte", "binarydata"}

\* ------------------------------------------------------------------ packets a client sends

\* a packet of fewer than 128 body bytes: control byte, one length byte, body
Packet(ctl, body) == << ctl, Len(body) >> \o body

\* the CONNECT of TestConnectPacket: client id "testClient", user name
\* "testUser", session expiry 30 s, keep alive 30 s
TestConnect ==
  << 16, 38, 0, 4, 77, 81, 84, 84, 5, 128, 0, 30, 5, 17, 0, 0, 0, 30, 0, 10,
     116, 101, 115, 116, 67, 108, 105, 101, 110, 116, 0, 8, 116, 101, 115, 116,
     85, 115, 101, 114 >>

\* the CONNACK the test expects for it
TestConnack == << 32, 11, 0, 0, 8, 37, 0, 40, 0, 41, 0, 42, 0 >>

\* A CONNECT with connect flags f, property block props and the payload
\* fields the flags announce: client id "c"; with bit 2 an empty will
\* property block, will topic "t" and will payload "w"; with bit 7 the user
\* name "u"; with bit pwBit the password "p".  pwBit is 6 in MQTT v5.
ConnectPacket(f, props, pwBit) ==
  Packet(16,
    << 0, 4, 77, 81, 84, 84, 5, f, 0, 30 >> \o << Len(props) >> \o props
    \o Field(<<99>>)
    \o (IF Bit(f, 2) THEN <<0>> \o Field(<<116>>) \o Field(<<119>>) ELSE <<>>)
    \o (IF Bit(f, 7) THEN Field(<<117>>) ELSE <<>>)
    \o (IF Bit(f, pwBit) THEN Field(<<112>>) ELSE <<>>))

\* the bits a CONNECT may carry its password flag in: 6 is MQTT's; 5 is the
\* bit ConnectFlag.password tests
PasswordBits == {5, 6}

\* the connect flags byte of a CONNECT packet
FlagsOf(pkt) == pkt[10]

\* A PUBLISH with the qos in its header flags, the topic, the packet
\* identifier 9 if qos > 0, the property block props and the payload pl.
PublishPacket(qos, topic, props, pl) ==
  Packet(48 + 2 * qos,
    Field(topic) \o (IF qos > 0 THEN <<0, 9>> ELSE <<>>)
    \o << Len(props) >> \o props \o pl)

\* the topics of the PUBLISH packets: "t", U+00E9
PublishTopics == { <<116>>, <<195, 169>> }

\* their property blocks: none, topic alias 7
PublishBlocks == { <<>>, << TopicAlias, 0, 7 >> }

\* their payloads: none, "w", the byte FF
PublishPayloads == { <<>>, <<119>>, <<255>> }

\* ------------------------------------------------------------------ connections

\* the connections clientHandle runs on
NConns == 2

Conns == 1..NConns

\* the goroutine of main, which runs ListenAndServe
Main == 0

\* the goroutines that log: main and one worker per connection
Procs == {Main} \cup Conns

\* a PUBLISH of topic "t" whose only property is a subscription identifier 0
PublishSubId0 == Packet(48, Field(<<116>>) \o << 2, SubscriptionIdentifier, 0 >>)

\* a PINGREQ: a type ParseBody has no decoder for, remaining length 0
PingReq == << 192, 0 >>

\* What a client sends before it closes, as the segments the transport
\* delivers: the test's CONNECT whole, with its fixed header split over two
\* segments, cut off in its body, and twice in one segment; a fixed header
\* whose length byte has the continuation bit; a PUBLISH with subscription
\* identifier 0; a PINGREQ; a control byte of type 0; nothing.
Scripts ==
  { << TestConnect >>,
    << <<16>>, Tail(TestConnect) >>,
    << Take(TestConnect, 20) >>,
    << TestConnect \o TestConnect >>,
    << <<16, 128>> >>,
    << PublishSubId0 >>,
    << PingReq >>,
    << <<0, 0>> >>,
    << >> }

VARIABLES test, stage, ret, workers, logger, process, listener

\* the codec and packet runs
harness == <<test, stage, ret>>

\* the server
server == <<workers, logger, process, listener>>

vars == <<test, stage, ret, workers, logger, process, listener>>

\* ------------------------------------------------------------------ logger

\* gLogger is nil (0) or the k-th logger made; the channel of the k-th logger
\* is k.  lp is where each goroutine stands in LogError, with the channel it
\* evaluated gLogger.c to; recv holds the goroutines InitLogger started, each
\* with the channel its range statement evaluated gLogger.c to (0: not yet);
\* handled counts the calls of msgHandle.
NoLogger ==
  [gLogger |-> 0,
   lp      |-> [p \in Procs |-> [pc |-> "none", c |-> 0]],
   recv    |-> <<>>,
   handled |-> 0]

\* a call of LogError by goroutine p: it enters InitLogger
LogError_call(lg, p) == [lg EXCEPT !.lp[p] = [pc |-> "InitLogger", c |-> 0]]

\* InitLogger: `if gLogger != nil { return }`
InitLogger_check(p) ==
  /\ process = "running"
  /\ logger.lp[p].pc = "InitLogger"
  /\ logger' = [logger EXCEPT
                  !.lp[p].pc = IF logger.gLogger # 0 THEN "send" ELSE "make"]
  /\ UNCHANGED <<harness, workers, process, listener>>

\* InitLogger: gLogger = &logger{c: make(chan logMsg)} and the go statement
InitLogger_make(p) ==
  /\ process = "running"
  /\ logger.lp[p].pc = "make"
  /\ logger' = [logger EXCEPT
                  !.gLogger = Len(logger.recv) + 1,
                  !.recv = Append(@, [pc |-> "start", c |-> 0]),
                  !.lp[p].pc = "send"]
  /\ UNCHANGED <<harness, workers, process, listener>>

\* LogError: runtime.Caller, and the operands of the send are evaluated:
\* gLogger.c is the channel of the logger gLogger points to now
LogError_send(p) ==
  /\ process = "running"
  /\ logger.lp[p].pc = "send"
  /\ logger' = [logger EXCEPT !.lp[p] = [pc |-> "blocked", c |-> logger.gLogger]]
  /\ UNCHANGED <<harness, workers, process, listener>>

\* the goroutine of InitLogger starts: `range gLogger.c` evaluates gLogger.c
\* once
Logger_range(g) ==
  /\ process = "running"
  /\ g \in DOMAIN logger.recv
  /\ logger.recv[g].pc = "start"
  /\ logger' = [logger EXCEPT !.recv[g] = [pc |-> "range", c |-> logger.gLogger]]
  /\ UNCHANGED <<harness, workers, process, listener>>

\* the channel is unbuffered: the send of p completes when a goroutine
\* ranging over the same channel receives the message, which it passes to
\* msgHandle
Logger_receive(p, g) ==
  /\ process = "running"
  /\ g \in DOMAIN logger.recv
  /\ logger.lp[p].pc = "blocked"
  /\ logger.recv[g].pc = "range"
  /\ logger.recv[g].c = logger.lp[p].c
  /\ logger' = [logger EXCEPT !.lp[p].pc = "sent", !.handled = @ + 1]
  /\ UNCHANGED <<harness, workers, process, listener>>

\* LogError returned to goroutine p
Logged(p) == logger.lp[p].pc = "sent"

\* goroutine p left LogError
LogError_return(lg, p) == [lg EXCEPT !.lp[p] = [pc |-> "none", c |-> 0]]

\* ------------------------------------------------------------------ clientHandle

\* the worker holds no request
NoReq == [kind |-> "nil"]

\* A connection and the worker that serves it.  script: the segments the
\* client has yet to send; wire: the bytes that arrived and were not read;
\* peerClosed: the client closed its side; open: c.Close() was not called;
\* h, req: the header and the request of the packet being served; written:
\* the bytes written to the connection; log: the message of the LogError
\* call the worker made.
Worker(pc, script) ==
  [pc |-> pc, script |-> script, wire |-> <<>>, peerClosed |-> FALSE,
   open |-> TRUE, h |-> ZeroHeader, req |-> NoReq, written |-> <<>>,
   log |-> ""]

\* no connection
NoWorker == [Worker("none", <<>>) EXCEPT !.open = FALSE]

\* c.Read(b) with len(b) = n on a connection with unread bytes wire, called
\* when bytes are there or the client closed: n = 0 returns at once, nothing
\* left returns io.EOF, otherwise what is there is copied, n bytes at most.
Conn_Read(wire, n) == BufRead(wire, n)

\* whether c.Read(b) with len(b) = n returns now
Conn_Readable(w, n) == n = 0 \/ w.wire # <<>> \/ w.peerClosed

\* a panic in the worker: the deferred c.Close() runs, then the process ends
Worker_panic(w) == [w EXCEPT !.pc = "panicked", !.open = FALSE]

\* clientHandle after ParseHeader (p) of the bytes the first Read filled in:
\* an error is logged; otherwise h.BodyLength() is called, which panics when
\* h is the nil interface
clientHandle_afterParseHeader(w, p) ==
  IF p.err # NoErr
    THEN [w EXCEPT !.pc = "LogError", !.log = "Failed to parse header, err:"]
  ELSE IF p.hnil THEN Worker_panic(w)
  ELSE [w EXCEPT !.pc = "ReadBody", !.h = p.h]

\* clientHandle after the Read of the header (rd): the count Read returned
\* is not looked at
clientHandle_afterReadHeader(w, rd) ==
  IF rd.err # NoErr
    THEN [w EXCEPT !.pc = "LogError", !.wire = rd.r,
                   !.log = "Failed to read header, err:"]
  ELSE clientHandle_afterParseHeader([w EXCEPT !.wire = rd.r], ParseHeader(rd.b))

\* clientHandle after h.ParseBody (b), had it read the next header before it
\* answered the request
clientHandle_afterParseBody_pipelined(w, b) ==
  IF b.out = "panic" THEN Worker_panic(w)
  ELSE IF b.out = "hang" THEN [w EXCEPT !.pc = "hung"]
  ELSE IF b.err # NoErr
    THEN [w EXCEPT !.pc = "LogError", !.log = "Close connection with reason, err:"]
  ELSE [w EXCEPT !.pc = "ReadHeader", !.req = b]

\* clientHandle after h.ParseBody (b)
clientHandle_afterParseBody(w, b) ==
  IF b.out = "panic" THEN Worker_panic(w)
  ELSE IF b.out = "hang" THEN [w EXCEPT !.pc = "hung"]
  ELSE IF b.err # NoErr
    THEN [w EXCEPT !.pc = "LogError", !.log = "Close connection with reason, err:"]
  ELSE [w EXCEPT !.pc = "ResponseTo", !.req = b]

\* clientHandle after the Read of the body (rd)
clientHandle_afterReadBody(w, rd) ==
  IF rd.err # NoErr
    THEN [w EXCEPT !.pc = "LogError", !.wire = rd.r,
                   !.log = "Failed to read body, err:"]
  ELSE clientHandle_afterParseBody([w EXCEPT !.wire = rd.r], ParseBody(w.h, rd.b))

\* the writes of ResponseTo that can fail: none while the client is there
WriteFailures(w) == IF w.peerClosed THEN 0..2 ELSE {0}

\* clientHandle after req.ResponseTo(c) (resp): what it returns is dropped,
\* and the loop starts over
clientHandle_afterResponseTo(w, resp) ==
  [w EXCEPT !.pc = "ReadHeader", !.written = @ \o resp.written,
            !.h = ZeroHeader, !.req = NoReq]

\* what a step of worker c does to the logger and to the process
Worker_effects(c) ==
  /\ logger' = IF workers'[c].pc = "LogError" THEN LogError_call(logger, c)
               ELSE logger
  /\ process' = IF workers'[c].pc = "panicked" THEN "panicked" ELSE process

\* the client sends its next segment
Client_send(c) ==
  /\ process = "running"
  /\ workers[c].open /\ ~workers[c].peerClosed
  /\ workers[c].script # <<>>
  /\ workers' = [workers EXCEPT ![c].wire = @ \o Head(workers[c].script),
                                ![c].script = Tail(@)]
  /\ UNCHANGED <<harness, logger, process, listener>>

\* the client closes the connection after its last segment
Client_close(c) ==
  /\ process = "running"
  /\ workers[c].open /\ ~workers[c].peerClosed
  /\ workers[c].script = <<>>
  /\ workers' = [workers EXCEPT ![c].peerClosed = TRUE]
  /\ UNCHANGED <<harness, logger, process, listener>>

\* b = make([]byte, FixedHeaderLen); c.Read(b); ParseHeader; h.BodyLength()
clientHandle_readHeader(c) ==
  /\ process = "running"
  /\ workers[c].pc = "ReadHeader"
  /\ Conn_Readable(workers[c], FixedHeaderLen)
  /\ workers' = [workers EXCEPT ![c] =
                   clientHandle_afterReadHeader(@, Conn_Read(@.wire, FixedHeaderLen))]
  /\ Worker_effects(c)
  /\ UNCHANGED <<harness, listener>>

\* b = make([]byte, h.BodyLength()); c.Read(b); h.ParseBody
clientHandle_readBody(c) ==
  /\ process = "running"
  /\ workers[c].pc = "ReadBody"
  /\ Conn_Readable(workers[c], BodyLength(workers[c].h))
  /\ workers' = [workers EXCEPT ![c] =
                   clientHandle_afterReadBody(@, Conn_Read(@.wire, BodyLength(@.h)))]
  /\ Worker_effects(c)
  /\ UNCHANGED <<harness, listener>>

\* req.ResponseTo(c)
clientHandle_respond(c) ==
  /\ process = "running"
  /\ workers[c].pc = "ResponseTo"
  /\ \E failAt \in WriteFailures(workers[c]) :
       workers' = [workers EXCEPT ![c] =
                     clientHandle_afterResponseTo(@, ResponseTo(@.req, failAt))]
  /\ UNCHANGED <<harness, logger, process, listener>>

\* LogError returned: return, and the deferred c.Close()
clientHandle_return(c) ==
  /\ process = "running"
  /\ workers[c].pc = "LogError"
  /\ Logged(c)
  /\ workers' = [workers EXCEPT ![c].pc = "closed", ![c].open = FALSE]
  /\ logger' = LogError_return(logger, c)
  /\ UNCHANGED <<harness, process, listener>>

\* ------------------------------------------------------------------ ListenAndServe

\* the clients that dial the port
NDialers == 3

Dialers == 1..NDialers

\* pc: where main stands in ListenAndServe; l: the listening socket is there;
\* err: net.Listen returned an error; dial: what became of each client's
\* dial.
Listener(pc) ==
  [pc |-> pc, l |-> FALSE, err |-> FALSE, dial |-> [d \in Dialers |-> "idle"]]

\* l, err := net.Listen("tcp", ":8883"): the port is free or it is not
ListenAndServe_listen ==
  /\ process = "running"
  /\ listener.pc = "Listen"
  /\ \E ok \in BOOLEAN :
       listener' = [listener EXCEPT !.pc = "AssertFail", !.l = ok, !.err = ~ok]
  /\ UNCHANGED <<harness, workers, logger, process>>

\* utils.AssertFail(err != nil): AssertFail takes its arguments as values to
\* log, it tests none of them; it calls LogError
AssertFail_log ==
  /\ process = "running"
  /\ listener.pc = "AssertFail"
  /\ listener' = [listener EXCEPT !.pc = "LogError"]
  /\ logger' = LogError_call(logger, Main)
  /\ UNCHANGED <<harness, workers, process>>

\* AssertFail after LogError: panic(""), which ends the process.  The defer
\* of l.Close() and the accept loop come after it.
AssertFail_panic ==
  /\ process = "running"
  /\ listener.pc = "LogError"
  /\ Logged(Main)
  /\ listener' = [listener EXCEPT !.pc = "panicked", !.l = FALSE]
  /\ logger' = LogError_return(logger, Main)
  /\ process' = "panicked"
  /\ UNCHANGED <<harness, workers>>

\* a client dials: the connection is queued on the listening socket if there
\* is one, and refused if not
Client_dial(d) ==
  /\ listener.dial[d] = "idle"
  /\ listener' = [listener EXCEPT
                    !.dial[d] = IF listener.l THEN "queued" ELSE "refused"]
  /\ UNCHANGED <<harness, workers, logger, process>>

\* a queued connection is reset when the process has ended
Client_reset(d) ==
  /\ process = "panicked"
  /\ listener.dial[d] = "queued"
  /\ listener' = [listener EXCEPT !.dial[d] = "reset"]
  /\ UNCHANGED <<harness, workers, logger, process>>

\* the server variables of a run that starts no server
ServerIdle ==
  /\ workers = [c \in Conns |-> NoWorker]
  /\ logger = NoLogger
  /\ process = "none"
  /\ listener = Listener("none")

\* ------------------------------------------------------------------ codec runs

\* a test: the function tried (kind) and its input: a number n, bytes, or a
\* header h
Test(kind, n, bytes, h) == [kind |-> kind, n |-> n, bytes |-> bytes, h |-> h]

NoRet == [none |-> TRUE]

Init ==
  /\ \/ \E n \in VBIValues : test = Test("vbi", n, <<>>, ZeroHeader)
     \/ \E k \in 0..MaxVbiLen : \E b \in [1..k -> VBIBytes] :
          test = Test("vbidecode", 0, b, ZeroHeader)
     \/ test = Test("parseheader", 0, <<>>, ZeroHeader)
     \/ \E c \in CtlBytes : \E k \in 0..MaxVbiLen : \E b \in [1..k -> VBIBytes] :
          test = Test("parseheader", 0, <<c>> \o b, ZeroHeader)
     \/ \E h \in Headers : test = Test("header", 0, <<>>, h)
     \/ \E f \in ConnectFlags : test = Test("connectflag", f, <<>>, ZeroHeader)
     \/ \E kind \in PropKinds : \E es \in EntrySeqs : \E t \in Trailers :
          \E L \in DeclaredLens(es, t) :
            test = Test(kind, L, PropBlock(L, es, t), ZeroHeader)
     \/ \E cs \in ChunkSeqs : \E L \in StringLens(cs) :
          test = Test("utf8string", L, StringInput(L, cs), ZeroHeader)
     \/ \E kind \in RawKinds : \E b \in RawInputs :
          test = Test(kind, 0, b, ZeroHeader)
     \/ \E old \in 0..1 : test = Test("byteinteger", old, <<>>, ZeroHeader)
     \/ \E old \in 0..1 : \E b \in BoolBytes : \E t \in Trailers :
          test = Test("byteinteger", old, <<b>> \o t, ZeroHeader)
  /\ stage = "input"
  /\ ret = NoRet
  /\ ServerIdle

\* VarByteInt(n).encode()
EncodeVBI ==
  /\ test.kind = "vbi" /\ stage = "input"
  /\ ret' = [enc |-> VarByteInt_encode(test.n)]
  /\ stage' = "encoded"
  /\ UNCHANGED <<test, server>>

\* VarByteInt.decode of the bytes encode produced
DecodeEncodedVBI ==
  /\ test.kind = "vbi" /\ stage = "encoded"
  /\ ret' = [enc |-> ret.enc, dec |-> VarByteInt_decode(ret.enc)]
  /\ stage' = "done"
  /\ UNCHANGED <<test, server>>

\* VarByteInt.decode of given bytes
DecodeVBI ==
  /\ test.kind = "vbidecode" /\ stage = "input"
  /\ ret' = VarByteInt_decode(test.bytes)
  /\ stage' = "done"
  /\ UNCHANGED <<test, server>>

\* ParseHeader of given bytes
DoParseHeader ==
  /\ test.kind = "parseheader" /\ stage = "input"
  /\ ret' = ParseHeader(test.bytes)
  /\ stage' = "done"
  /\ UNCHANGED <<test, server>>

\* MqttHeader.encode of a given header
EncodeHeader ==
  /\ test.kind = "header" /\ stage = "input"
  /\ ret' = [enc |-> MqttHeader_encode(test.h)]
  /\ stage' = "encoded"
  /\ UNCHANGED <<test, server>>

\* ParseHeader of the bytes MqttHeader.encode produced
ParseEncodedHeader ==
  /\ test.kind = "header" /\ stage = "encoded"
  /\ ret' = [enc |-> ret.enc, dec |-> ParseHeader(ret.enc)]
  /\ stage' = "done"
  /\ UNCHANGED <<test, server>>

\* ConnectFlag.valid of a given flag byte
ValidateConnectFlag ==
  /\ test.kind = "connectflag" /\ stage = "input"
  /\ ret' = [err |-> ConnectFlag_valid(test.n)]
  /\ stage' = "done"
  /\ UNCHANGED <<test, server>>

\* ConnectProperties.decode of a given block
DecodeConnectProperties ==
  /\ test.kind = "connectprops" /\ stage = "input"
  /\ ret' = ConnectProperties_decode(test.bytes)
  /\ stage' = "done"
  /\ UNCHANGED <<test, server>>

\* WillProperties.decode of a given block
DecodeWillProperties ==
  /\ test.kind = "willprops" /\ stage = "input"
  /\ ret' = WillProperties_decode(test.bytes)
  /\ stage' = "done"
  /\ UNCHANGED <<test, server>>

\* PublishProperties.decode of a given block
DecodePublishProperties ==
  /\ test.kind = "publishprops" /\ stage = "input"
  /\ ret' = PublishProperties_decode(test.bytes)
  /\ stage' = "done"
  /\ UNCHANGED <<test, server>>

\* ByteInteger.decode of given bytes, into a receiver that holds test.n = 1
DecodeByteInteger ==
  /\ test.kind = "byteinteger" /\ stage = "input"
  /\ ret' = ByteInteger_decode(test.bytes, test.n = 1)
  /\ stage' = "done"
  /\ UNCHANGED <<test, server>>

\* UTF8String.decode of a given string field
DecodeUTF8String ==
  /\ test.kind = "utf8string" /\ stage = "input"
  /\ ret' = UTF8String_decode(test.bytes)
  /\ stage' = "done"
  /\ UNCHANGED <<test, server>>

\* TwoByteInteger.decode of given bytes, into a receiver that holds 0
DecodeTwoByteInteger ==
  /\ test.kind = "twobyte" /\ stage = "input"
  /\ ret' = TwoByteInteger_decode(test.bytes, 0)
  /\ stage' = "done"
  /\ UNCHANGED <<test, server>>

\* FourByteInteger.decode of given bytes, into a receiver that holds 0
DecodeFourByteInteger ==
  /\ test.kind = "fourbyte" /\ stage = "input"
  /\ ret' = FourByteInteger_decode(test.bytes, <<0, 0, 0, 0>>)
  /\ stage' = "done"
  /\ UNCHANGED <<test, server>>

\* BinaryData.decode of given bytes
DecodeBinaryData ==
  /\ test.kind = "binarydata" /\ stage = "input"
  /\ ret' = BinaryData_decode(test.bytes)
  /\ stage' = "done"
  /\ UNCHANGED <<test, server>>

Next ==
  \/ EncodeVBI
  \/ DecodeEncodedVBI
  \/ DecodeVBI
  \/ DoParseHeader
  \/ EncodeHeader
  \/ ParseEncodedHeader
  \/ ValidateConnectFlag
  \/ DecodeConnectProperties
  \/ DecodeWillProperties
  \/ DecodePublishProperties
  \/ DecodeByteInteger
  \/ DecodeUTF8String
  \/ DecodeTwoByteInteger
  \/ DecodeFourByteInteger
  \/ DecodeBinaryData

Spec == Init /\ [][Next]_vars

\* ------------------------------------------------------------------ packet runs

\* what a run holds before anything was parsed
NoResponse == [n |-> 0, err |-> NoErr, written |-> <<>>]

\* parsePacket after ParseHeader (p): ParseBody on the same reader if err is
\* nil.  A nil header with a nil error makes p.ParseBody a call on a nil
\* interface, which panics.
parsePacket_afterHeader(p) ==
  IF p.err # NoErr THEN NoRequest("ret", p.err, p.r)
  ELSE IF p.hnil THEN NoRequest("panic", NoErr, p.r)
  ELSE ParseBody(p.h, p.r)

\* parsePacket of the test
parsePacket(bytes) == parsePacket_afterHeader(ParseHeader(bytes))

PacketInit ==
  /\ \/ test = Test("packet", 0, TestConnect, ZeroHeader)
     \/ \E f \in ConnectFlags : \E b \in PasswordBits :
          test = Test("packet", b, ConnectPacket(f, <<>>, b), ZeroHeader)
     \/ \E qos \in 0..3 : \E topic \in PublishTopics :
          \E props \in PublishBlocks : \E pl \in PublishPayloads :
            test = Test("packet", qos, PublishPacket(qos, topic, props, pl),
                        ZeroHeader)
  /\ stage = "input"
  /\ ret = NoRet
  /\ ServerIdle

\* req, err := parsePacket(buf)
ParsePacket ==
  /\ test.kind = "packet" /\ stage = "input"
  /\ ret' = [req |-> parsePacket(test.bytes), resp |-> NoResponse]
  /\ stage' = "parsed"
  /\ UNCHANGED <<test, server>>

\* req.ResponseTo(buf), for a request that was parsed; a bytes.Buffer takes
\* every write
Respond ==
  /\ test.kind = "packet" /\ stage = "parsed"
  /\ ret.req.out = "ret" /\ ret.req.err = NoErr
  /\ ret' = [ret EXCEPT !.resp = ResponseTo(ret.req, 0)]
  /\ stage' = "responded"
  /\ UNCHANGED <<test, server>>

PacketNext ==
  \/ ParsePacket
  \/ Respond

SpecPacket == PacketInit /\ [][PacketNext]_vars

\* ------------------------------------------------------------------ server runs

\* clientHandle running on every connection, each client with a script
GatewayInit ==
  /\ test = Test("gateway", 0, <<>>, ZeroHeader)
  /\ stage = "input"
  /\ ret = NoRet
  /\ workers \in [Conns -> {Worker("ReadHeader", s) : s \in Scripts}]
  /\ logger = NoLogger
  /\ process = "running"
  /\ listener = Listener("none")

GatewayNext ==
  \/ \E c \in Conns : Client_send(c)
  \/ \E c \in Conns : Client_close(c)
  \/ \E c \in Conns : clientHandle_readHeader(c)
  \/ \E c \in Conns : clientHandle_readBody(c)
  \/ \E c \in Conns : clientHandle_respond(c)
  \/ \E c \in Conns : clientHandle_return(c)
  \/ \E c \in Conns : InitLogger_check(c)
  \/ \E c \in Conns : InitLogger_make(c)
  \/ \E c \in Conns : LogError_send(c)
  \/ \E g \in 1..NConns : Logger_range(g)
  \/ \E c \in Conns : \E g \in 1..NConns : Logger_receive(c, g)

SpecGateway == GatewayInit /\ [][GatewayNext]_vars

\* main calls ListenAndServe
ListenInit ==
  /\ test = Test("listen", 0, <<>>, ZeroHeader)
  /\ stage = "input"
  /\ ret = NoRet
  /\ workers = [c \in Conns |-> NoWorker]
  /\ logger = NoLogger
  /\ process = "running"
  /\ listener = Listener("Listen")

ListenNext ==
  \/ ListenAndServe_listen
  \/ AssertFail_log
  \/ InitLogger_check(Main)
  \/ InitLogger_make(Main)
  \/ LogError_send(Main)
  \/ Logger_range(1)
  \/ Logger_receive(Main, 1)
  \/ AssertFail_panic
  \/ \E d \in Dialers : Client_dial(d)
  \/ \E d \in Dialers : Client_reset(d)

SpecListen == ListenInit /\ [][ListenNext]_vars

\* ------------------------------------------------------------------ claims

\* C1: parsing the CONNECT of TestConnectPacket with ParseHeader and then
\* ParseBody succeeds with a ConnectRequest, and ResponseTo then writes
\* exactly the 13 bytes 20 0B 00 00 08 25 00 28 00 29 00 2A 00 and reports
\* them written.
C1_TestConnectAnswered ==
  (test.kind = "packet" /\ test.bytes = TestConnect) =>
    /\ stage # "input" =>
         (ret.req.out = "ret" /\ ret.req.err = NoErr /\ ret.req.kind = "connect")
    /\ stage = "responded" =>
         (ret.resp.err = NoErr /\ ret.resp.written = TestConnack
          /\ ret.resp.n = Len(TestConnack))

\* the CONNECT of the test was parsed and answered
C1_Witness ==
  test.kind = "packet" /\ test.bytes = TestConnect /\ stage = "responded"

\* C2: whatever bytes the clients send, no connection worker ends in a panic
\* (a panic in a goroutine ends the process).
C2_NoWorkerPanics ==
  process # "panicked" /\ \A c \in Conns : workers[c].pc # "panicked"

\* C3: once net.Listen succeeded, ListenAndServe does not stop: main is never
\* stopped by a panic unless Listen returned an error.
C3_ListenerKeepsRunning == listener.pc = "panicked" => listener.err

\* C4: ParseHeader returns either a header and a nil error or a nil header
\* and a non-nil error.
C4_HeaderOrError ==
  (test.kind = "parseheader" /\ stage = "done") =>
    (ret.hnil <=> ret.err # NoErr)

\* the number of bytes of the minimal encoding of n < 2^28
VbiMinLen(n) ==
  IF n < 128 THEN 1 ELSE IF n < 16384 THEN 2 ELSE IF n < 2097152 THEN 3 ELSE 4

\* C5: decoding the encoding of n gives n back, and the encoding has the
\* minimal number of bytes, all but the last with the continuation bit.
C5_VbiRoundTrip ==
  (test.kind = "vbi" /\ stage = "done") =>
    /\ ret.dec.err = NoErr
    /\ ret.dec.v = test.n
    /\ Len(ret.enc) = VbiMinLen(test.n)
    /\ \A i \in 1..(Len(ret.enc) - 1) : ret.enc[i] >= 128

\* every byte of b has the continuation bit
AllContinue(b) == \A i \in 1..Len(b) : b[i] >= 128

\* C6: VarByteInt.decode returns an error for an input whose first four bytes
\* all have the continuation bit, and for an input that ends before a byte
\* without the continuation bit; a value it returns is below 2^28.
C6_VbiRejection ==
  (test.kind = "vbidecode" /\ stage = "done") =>
    /\ (Len(test.bytes) >= 4 /\ AllContinue(Take(test.bytes, 4)))
         => ret.err # NoErr
    /\ AllContinue(test.bytes) => ret.err # NoErr
    /\ ret.err = NoErr => ret.v < 268435456

\* five bytes, the continuation bit on every one, were refused
C6_Witness ==
  /\ test.kind = "vbidecode" /\ stage = "done"
  /\ Len(test.bytes) = 5 /\ AllContinue(test.bytes)
  /\ ret.err # NoErr

\* C7: ParseHeader of the bytes of MqttHeader.encode returns a header with the
\* same control type, the same dup, qos and retain, and the same length.
C7_HeaderRoundTrip ==
  (test.kind = "header" /\ stage = "done") =>
    (~ret.dec.hnil /\ ret.dec.err = NoErr /\ ret.dec.h = test.h)

\* the will-qos field of a connect flags byte: bits 4-3
WillQoS(f) == (f \div 8) % 4

\* C8: ConnectFlag.valid accepts exactly the flag bytes with the reserved
\* bit 0, will-qos at most 2, and either the will flag set or will-qos 0.
C8_FlagValidity ==
  (test.kind = "connectflag" /\ stage = "done") =>
    ((ret.err = NoErr) <=>
       (~Bit(test.n, 0) /\ WillQoS(test.n) <= 2
        /\ (Bit(test.n, 2) \/ WillQoS(test.n) = 0)))

\* C9: the session-present bit, the first byte after the fixed header of a
\* CONNACK, is 0 in every CONNACK written.
C9_SessionPresentZero ==
  (test.kind = "packet" /\ stage = "responded" /\ ret.resp.written # <<>>) =>
    ret.resp.written[FixedHeaderLen + 1] = 0

\* the reason code of the first failing check: will-qos above the maximum
\* QoS 0, then will-retain (bit 5 of the connect flags)
FirstFailingCheck(f) ==
  IF WillQoS(f) > QoS0 THEN QoSNotSupported
  ELSE IF Bit(f, 5) THEN RetainNotSupported
  ELSE Success

\* C10: the reason code of a CONNACK written for a CONNECT, the second byte
\* after the fixed header, is that of the first failing check.
C10_ReasonOfFirstFailingCheck ==
  (test.kind = "packet" /\ stage = "responded" /\ ret.resp.written # <<>>) =>
    ret.resp.written[FixedHeaderLen + 2] = FirstFailingCheck(FlagsOf(test.bytes))

\* the property block of a CONNACK written to the transport: what follows the
\* fixed header, the acknowledge flags, the reason code and the one-byte
\* property length
ConnackBlock(w) == SubSeq(w, FixedHeaderLen + 4, Len(w))

\* the block holds the one-byte property id with the value val
Advertises(block, id, val) ==
  \E i \in 1..(Len(block) - 1) : i % 2 = 1 /\ block[i] = id /\ block[i + 1] = val

\* C11: the property block of every CONNACK written holds the five
\* capability properties maximum-qos, retain-available,
\* wildcard-subscription-available, subscription-identifiers-available and
\* shared-subscription-available, each with the value 0.
C11_AllCapabilitiesAdvertised ==
  (test.kind = "packet" /\ stage = "responded" /\ ret.resp.written # <<>>) =>
    \A id \in {MaximumQoS, RetainAvailable, WildcardSubscriptionAvailable,
               SubscriptionIdentifiersAvailable, SharedSubscriptionAvailable} :
      Advertises(ConnackBlock(ret.resp.written), id, 0)

\* ------------------------------------------------------------------ claims of the connection loop

\* goroutine p is blocked in the send of LogError on a channel that no logger
\* goroutine receives from and none will: every goroutine InitLogger started
\* ranges over another channel
StuckInLogError(p) ==
  /\ logger.lp[p].pc = "blocked"
  /\ \A g \in DOMAIN logger.recv :
       logger.recv[g].pc = "range" /\ logger.recv[g].c # logger.lp[p].c

\* the LogError calls of the branches that follow a parse error: of the
\* header, and of the body (an unsupported control type included)
ParseErrorLogs ==
  {"Failed to parse header, err:", "Close connection with reason, err:"}

\* C12: a worker that met a header parse error, an unsupported control type
\* or a body decode error (it is at the LogError call of that branch) can
\* always go on to close its connection: it is never blocked for good before
\* its return.
C12_ErrorClosesConnection ==
  \A c \in Conns :
    (workers[c].pc = "LogError" /\ workers[c].log \in ParseErrorLogs
     /\ process = "running") =>
      ~StuckInLogError(c)


\* the step of worker c in which req.ResponseTo(c) returned an error: Response
\* failed, or less reached the connection than the whole response
ResponseTo_failed(c) ==
  /\ workers[c].pc = "ResponseTo"
  /\ workers'[c].pc # "ResponseTo"
  /\ \/ ResponseTo(workers[c].req, 0).err # NoErr
     \/ workers'[c].written #
          workers[c].written \o ResponseTo(workers[c].req, 0).written

\* C13: a step in which ResponseTo returns an error does not take the worker
\* back to the read of the next header.
C13_WriteFailureCloses ==
  [][\A c \in Conns : ResponseTo_failed(c) => workers'[c].pc # "ReadHeader"]_vars


\* the step of worker c (not of its client) in which the Read at pc at
\* finds fewer than the n bytes it asked for
ShortRead(c, at, n) ==
  /\ workers[c].pc = at
  /\ Len(workers[c].wire) < n
  /\ workers'[c] # workers[c]
  /\ workers'[c].script = workers[c].script
  /\ workers'[c].peerClosed = workers[c].peerClosed

\* worker c ends the step at the LogError call with message msg
ClosesWith(c, msg) ==
  workers'[c].pc = "LogError" /\ workers'[c].log = msg

\* C14: a Read that finds fewer bytes than the fixed header, or than the
\* remaining length, never hands its buffer to ParseHeader or to the decoder:
\* the worker takes the read-error return (or keeps reading).
C14_ExactFraming ==
  [][\A c \in Conns :
       /\ ShortRead(c, "ReadHeader", FixedHeaderLen) =>
            ClosesWith(c, "Failed to read header, err:")
       /\ ShortRead(c, "ReadBody", BodyLength(workers[c].h)) =>
            ClosesWith(c, "Failed to read body, err:")]_vars


\* worker c holds a parsed request it has not answered yet
InFlight(c) == workers[c].req # NoReq

\* what the connection of worker c received in this step is (the part that
\* got through of) the response to the request the worker held
AnswersRequestInHand(c) ==
  /\ workers[c].pc = "ResponseTo"
  /\ InFlight(c)
  /\ \E failAt \in 0..2 :
       workers'[c].written =
         workers[c].written \o ResponseTo(workers[c].req, failAt).written

Serves(g, ch) ==
  \/ logger.recv[g].pc = "range" /\ logger.recv[g].c = ch
  \/ logger.recv[g].pc = "start" /\ logger.gLogger = ch

\* C16: whenever a goroutine is blocked in the send of a log call, some
\* goroutine started by InitLogger receives, or can still come to receive,
\* from the channel it sends on: no sender is left on a channel nobody
\* receives from, first calls that race on InitLogger included.
C16_NoSenderLeftBehind ==
  \A p \in Procs :
    logger.lp[p].pc = "blocked" =>
      \E g \in DOMAIN logger.recv : Serves(g, logger.lp[p].c)


\* ------------------------------------------------------------------ claims of the property decoders

\* a property decoder returned for the block of the run
PropDecoded == test.kind \in PropKinds /\ stage = "done"

\* it returned without an error
PropAccepted == PropDecoded /\ ret.out = "ret" /\ ret.err = NoErr

\* the bytes the decoder took after the one length byte
PropConsumed == Len(test.bytes) - 1 - Len(ret.r)

\* C17: a property decoder that succeeds on a block declaring length L
\* (test.n) has advanced the reader by exactly L bytes after the length field;
\* a block whose last value runs past L is not accepted.
C17_BlockExactness == PropAccepted => PropConsumed = test.n


\* the identifier of entry e
EntryId(e) == e[1]

\* the entries es hold an identifier other than the user property twice
HasDuplicate(es) ==
  \E i, j \in DOMAIN es :
    i < j /\ EntryId(es[i]) = EntryId(es[j]) /\ EntryId(es[i]) # UserProperty

\* the block of the run holds exactly the entries es, with their length
\* declared
BlockOf(es) ==
  \E t \in Trailers : test.bytes = PropBlock(Len(Flatten(es)), es, t)

\* C18: a property decoder does not accept a block in which an identifier
\* other than the user property occurs twice.
C18_NoDuplicateProperty ==
  \A es \in EntrySeqs : (PropDecoded /\ BlockOf(es) /\ HasDuplicate(es)) => ~PropAccepted

\* the identifiers ConnectProperties.decode and PublishProperties.decode
\* have a case for, among those of PropEntries
KnownTo(kind) ==
  IF kind = "connectprops"
    THEN {SessionExpiryInterval, ReceiveMaximum, MaximumPacketSize,
          RequestResponseInformation, RequestProblemInformation, UserProperty}
  ELSE {PayloadFormatIndicator, TopicAlias, SubscriptionIdentifier, UserProperty}

\* the entries es are valid for the decoder of kind, and the user property
\* is among them more than once
RepeatsUserProperty(es, kind) ==
  /\ \A i \in DOMAIN es : EntryId(es[i]) \in KnownTo(kind)
  /\ ~HasDuplicate(es)
  /\ \E i, j \in DOMAIN es :
       i < j /\ EntryId(es[i]) = UserProperty /\ EntryId(es[j]) = UserProperty

\* C19: ConnectProperties.decode and PublishProperties.decode accept a block
\* that is valid and holds the user property more than once.
C19_UserPropertyRepeatable ==
  \A es \in EntrySeqs :
    (PropDecoded /\ test.kind \in {"connectprops", "publishprops"}
     /\ BlockOf(es) /\ RepeatsUserProperty(es, test.kind)) => PropAccepted

\* ------------------------------------------------------------------ claims of the integer decoders

\* ByteInteger.decode returned for the bytes of the run
BoolDecoded == test.kind = "byteinteger" /\ stage = "done"

\* C20: ByteInteger.decode succeeds exactly when the reader starts with 0x00
\* or 0x01, and then yields false for 0x00 and true for 0x01; it fails on any
\* other byte and on an empty reader.
C20_ByteBooleanDecode ==
  BoolDecoded =>
    /\ (ret.err = NoErr) <=> (test.bytes # <<>> /\ test.bytes[1] \in {0, 1})
    /\ (ret.err = NoErr) => (ret.v = (test.bytes[1] = 1))


\* ------------------------------------------------------------------ claims of the string decoder

\* UTF8String.decode was applied to the string field of the run
StringDecoded == test.kind = "utf8string" /\ stage = "done"

\* it returned without an error
StringAccepted == StringDecoded /\ ret.out = "ret" /\ ret.err = NoErr

\* what follows the two length bytes in the field of the run
StringContent == Drop(test.bytes, 2)

\* at least L (test.n) bytes follow the length, and those L bytes are valid
\* UTF-8
StringWellFormed ==
  Len(StringContent) >= test.n /\ Utf8Valid(Take(StringContent, test.n))

\* C21: UTF8String.decode succeeds exactly when at least L bytes follow the
\* length and those L bytes are valid UTF-8, whatever comes after them; it
\* then yields those L bytes and leaves the reader right after them.
C21_StringDecode ==
  StringDecoded =>
    /\ StringAccepted <=> StringWellFormed
    /\ StringAccepted =>
         (ret.v = Take(StringContent, test.n) /\ ret.r = Drop(StringContent, test.n))


\* C29: UTF8String.decode comes back, with a value or an error, from every
\* string field it is applied to, one that holds U+FFFD (EF BF BD) included.
C29_StringDecodeTerminates == StringDecoded => ret.out = "ret"


\* ------------------------------------------------------------------ claims of the integer and binary decoders

\* an integer or binary decoder was applied to the bytes of the run
RawDecoded == test.kind \in RawKinds /\ stage = "done"

\* the size of what the decoder of the run reads: 2 bytes, 4 bytes, or the
\* two length bytes and the length they declare
EncodedSize ==
  IF test.kind = "twobyte" THEN 2
  ELSE IF test.kind = "fourbyte" THEN 4
  ELSE IF Len(test.bytes) < 2 THEN 2
  ELSE 2 + Uint16(test.bytes)

\* C28: TwoByteInteger.decode, FourByteInteger.decode and BinaryData.decode
\* return an error whenever the reader holds fewer bytes than the encoded
\* size.
C28_ShortBufferRejected ==
  (RawDecoded /\ Len(test.bytes) < EncodedSize) => ret.err # NoErr


\* ------------------------------------------------------------------ claims of the CONNECT decoder

\* parsePacket accepted the packet of the run as a CONNECT
ConnectParsed ==
  /\ test.kind = "packet" /\ stage \in {"parsed", "responded"}
  /\ ret.req.out = "ret" /\ ret.req.err = NoErr /\ ret.req.kind = "connect"

\* the packet of the run carries its password where MQTT's layout says: with
\* bit 6 of the connect flags
MqttLayout == test.n = 6

\* the field a ConnectPacket carries with a flag bit, the field ConnectPayload
\* holds without it
FieldIf(present, s) == IF present THEN s ELSE <<>>

\* C22: for a CONNECT laid out as MQTT says, the parsed payload holds the
\* password exactly when bit 6 is set and the user name exactly when bit 7 is
\* set, and ConnectFlag.retain is bit 5.
C22_ConnectFlagLayout ==
  (ConnectParsed /\ MqttLayout) =>
    /\ ret.req.connect.payload.password = FieldIf(Bit(FlagsOf(test.bytes), 6), <<112>>)
    /\ ret.req.connect.payload.username = FieldIf(Bit(FlagsOf(test.bytes), 7), <<117>>)
    /\ ConnectFlag_retain(ret.req.connect.flag) <=> Bit(FlagsOf(test.bytes), 5)

\* C23: ParseConnect accepts no body of which a byte is left unread after the
\* payload fields the connect flags select.
C23_NoLeftoverBytes == ConnectParsed => ret.req.r = <<>>


\* the entries es hold identifier id
Present(es, id) == \E i \in DOMAIN es : EntryId(es[i]) = id

\* the value bytes the entries es give identifier id, or default if they do
\* not hold it
ValueBytes(es, id, default) ==
  IF Present(es, id)
    THEN Tail(es[CHOOSE i \in DOMAIN es : EntryId(es[i]) = id])
    ELSE default

\* the slots of ConnectProperties p hold what the entries es say, and the
\* defaults for what they do not hold
SlotsFollow(p, es) ==
  /\ p.sessionExpiryInterval = ValueBytes(es, SessionExpiryInterval, <<0, 0, 0, 0>>)
  /\ p.receiveMaximum = Uint16(ValueBytes(es, ReceiveMaximum, <<255, 255>>))
  /\ p.maximumPacketSize = ValueBytes(es, MaximumPacketSize, <<255, 255, 255, 255>>)
  /\ p.topicAliasMaximum = Uint16(ValueBytes(es, TopicAliasMaximum, <<0, 0>>))
  /\ p.requestResponseInfo = (ValueBytes(es, RequestResponseInformation, <<0>>) = <<1>>)
  /\ p.requestProblemInfo = (ValueBytes(es, RequestProblemInformation, <<1>>) = <<1>>)

\* C24: after ConnectProperties.decode succeeds, every slot holds the value
\* decoded for its own identifier if the block held it, and its default
\* otherwise.
C24_SlotsAndDefaults ==
  \A es \in EntrySeqs :
    (PropAccepted /\ test.kind = "connectprops" /\ BlockOf(es)) =>
      SlotsFollow(ret.p, es)

\* C25: ConnectProperties.decode does not accept a block that holds receive
\* maximum 0 or maximum packet size 0.
C25_ZeroLimitsRejected ==
  \A es \in EntrySeqs :
    (PropDecoded /\ test.kind = "connectprops" /\ BlockOf(es)
     /\ \E i \in DOMAIN es :
          es[i] \in { <<ReceiveMaximum, 0, 0>>, <<MaximumPacketSize, 0, 0, 0, 0>> })
      => ~PropAccepted

\* the entries es are valid for PublishProperties.decode but for the value
\* of the subscription identifier, which they hold: no identifier twice, none
\* the decoder has no case for
PublishBlockWith(es, subId) ==
  /\ \A i \in DOMAIN es : EntryId(es[i]) \in KnownTo("publishprops")
  /\ \A i, j \in DOMAIN es : i # j => EntryId(es[i]) # EntryId(es[j])
  /\ \E i \in DOMAIN es : es[i] = <<SubscriptionIdentifier, subId>>

\* C27: PublishProperties.decode returns an error for a block that holds the
\* subscription identifier 0, and accepts one that holds a nonzero one.
C27_SubscriptionIdentifierNonzero ==
  \A es \in EntrySeqs :
    (PropDecoded /\ test.kind = "publishprops" /\ BlockOf(es)) =>
      /\ PublishBlockWith(es, 0) => (ret.out = "ret" /\ ret.err # NoErr)
      /\ PublishBlockWith(es, 5) => PropAccepted


\* ------------------------------------------------------------------ claims of the PUBLISH decoder

\* parsePacket returned a PublishRequest of the given fields for the packet
\* of the run
ParsedAs(topic, id, alias, pl) ==
  /\ ret.req.out = "ret" /\ ret.req.err = NoErr /\ ret.req.kind = "publish"
  /\ ret.req.publish.topic = topic
  /\ ret.req.publish.packetId = id
  /\ ret.req.publish.prop.topicAlias = alias
  /\ ret.req.publish.pl = pl

\* C26: a PUBLISH is parsed into its topic, its packet identifier if and only
\* if the qos of its header is above 0, its properties, and the rest of the
\* body, possibly nothing, as its payload.
C26_PublishLayout ==
  \A qos \in 0..3 : \A topic \in PublishTopics :
    \A props \in PublishBlocks : \A pl \in PublishPayloads :
      (test.kind = "packet" /\ stage = "parsed"
       /\ test.bytes = PublishPacket(qos, topic, props, pl)) =>
        ParsedAs(topic, IF qos > 0 THEN 9 ELSE 0,
                 IF props = <<>> THEN 0 ELSE 7, pl)


\* ------------------------------------------------------------------ claims of the CONNACK

\* the length of the body of a CONNACK with reason code Success:
\* acknowledge flags, reason code, property length, four properties
SuccessBodyLen == Len(TestConnack) - FixedHeaderLen

\* C30: every CONNECT that was parsed has flags that take ConnackProperties.
\* encode to Success, so Response returns no error, and ResponseTo writes a
\* whole CONNACK for it: the fixed header and the 11 bytes of the body, with
\* the reason code Success.
C30_AcceptedConnectGetsSuccess ==
  ConnectParsed =>
    /\ ConnackProperties_encode(ret.req.connect.flag, ret.req.connect.prop).rc = Success
    /\ ConnectRequest_Response(ret.req.connect).err = NoErr
    /\ Len(ConnectRequest_Response(ret.req.connect).w) = SuccessBodyLen
    /\ stage = "responded" =>
         /\ ret.resp.err = NoErr
         /\ Len(ret.resp.written) = FixedHeaderLen + SuccessBodyLen
         /\ ret.resp.n = Len(ret.resp.written)
         /\ ret.resp.written[FixedHeaderLen + 2] = Success

\* a CONNECT with the will flag and bit 5 of the connect flags (MQTT's will
\* retain) was parsed and answered
C30_Witness ==
  /\ ConnectParsed /\ stage = "responded"
  /\ Bit(ret.req.connect.flag, 2) /\ Bit(ret.req.connect.flag, 5)
  /\ ret.resp.written # <<>>

====
